---- MODULE Spec2Model ----
(***************************************************************************)
(* Model of network_throttle.py: a command-line tool that throttles the    *)
(* traffic of one host with the packet filter (pfctl) and the dummynet     *)
(* shaper (dnctl), and flushes what it installed when it exits.            *)
(*                                                                         *)
(* The program is one Python process.  Its position is pc; the machine-    *)
(* wide shaper / packet-filter configuration is os; cmds is the log of the *)
(* configuration commands it has issued.  The Python runtime is modelled   *)
(* as far as the program relies on it: sys.exit and unhandled exceptions   *)
(* finalize the interpreter, which runs the registered atexit callback     *)
(* once and swallows what the callback raises; SIGINT raises               *)
(* KeyboardInterrupt until line 96 installs the handler that raises        *)
(* SystemExit(0); subprocess.run kills the child and re-raises when an     *)
(* exception arrives while it waits.  The executables pfctl, dnctl and sh  *)
(* are taken to exist; a command "fails" by a non-zero exit status and     *)
(* then leaves the configuration as it was.                                *)
(***************************************************************************)
EXTENDS Integers, Sequences, FiniteSets, TLC

VARIABLES
    argv,            \* command line: [url, download, upload]
    euid,            \* effective uid of the process
    target_host,     \* main: parsed_url.hostname
    pc,              \* position of the process
    os,              \* shaper and packet-filter configuration of the machine
    os0,             \* that configuration before the program started
    rulesFile,       \* content of /tmp/pf.rules.throttle
    cmds,            \* configuration commands issued so far
    handler,         \* disposition of SIGINT
    registered,      \* cleanup is registered with atexit
    cleanupRuns,     \* number of times cleanup was entered
    cleanupRaised,   \* number of times an exception left cleanup
    exitCode,        \* status the interpreter exits with
    exitVia,         \* what ended main
    sigAt,           \* positions at which a SIGINT was delivered
    sigints,         \* number of SIGINTs delivered
    wasActive,       \* "Throttling is now active" was announced
    calls,           \* cleanup driver: invocations made, with the state each left
    wakeups          \* returns of signal.pause() that were not an interrupt

vars == <<argv, euid, target_host, pc, os, os0, rulesFile, cmds, handler,
          registered, cleanupRuns, cleanupRaised, exitCode, exitVia, sigAt,
          sigints, wasActive, calls, wakeups>>

----------------------------------------------------------------------------
(* Bounds *)

MaxSigints == 2          \* SIGINTs delivered in one execution
MaxPipeId == 3           \* dummynet pipe numbers 1..MaxPipeId exist on the machine
MaxCalls == 2            \* cleanup driver: successive invocations
MaxWakeups == 2          \* returns of signal.pause() without an interrupt

----------------------------------------------------------------------------
(* Values *)

None == "None"
\* a pipe is <<>> when it does not exist and <<bw, queue>> when configured
NoPipe == <<>>
PipeIds == 1 .. MaxPipeId
Hosts == {"example.com", "other.org", "local"}

\* argparse default of --download / --upload
DefaultRate == 1000

\* an option is <<>> when omitted and <<n>> when given as n
DownloadOpts == {<<>>, <<500>>, <<0>>}
UploadOpts == {<<>>, <<200>>, <<-1>>}

\* URLs by their components: with or without the "//" that introduces the
\* network location, optional credentials and port, and the host as written
\* (a sequence of tokens: a name, or an IP literal in brackets, or nothing).
URLs ==
    { [slashes |-> TRUE,  userinfo |-> FALSE, host |-> <<"example.com">>, port |-> FALSE],
      [slashes |-> TRUE,  userinfo |-> TRUE,  host |-> <<"Example.COM">>, port |-> TRUE],
      [slashes |-> TRUE,  userinfo |-> FALSE, host |-> <<"[", "::1", "]">>, port |-> TRUE],
      [slashes |-> FALSE, userinfo |-> FALSE, host |-> <<"example.com">>, port |-> FALSE],
      [slashes |-> TRUE,  userinfo |-> FALSE, host |-> <<>>, port |-> FALSE] }

\* the network location urlparse finds in the URL text, as tokens; without
\* the leading "//" there is none
Netloc(u) ==
    IF ~u.slashes THEN <<>>
    ELSE (IF u.userinfo THEN <<"user", ":", "pw", "@">> ELSE <<>>)
         \o u.host
         \o (IF u.port THEN <<":", "8080">> ELSE <<>>)

\* str.lower()
Lower(h) == IF h = "Example.COM" THEN "example.com" ELSE h

Positions(seq, tok) == {i \in 1 .. Len(seq) : seq[i] = tok}
First(seq, tok) == CHOOSE i \in Positions(seq, tok) : \A k \in Positions(seq, tok) : i <= k
Last(seq, tok) == CHOOSE i \in Positions(seq, tok) : \A k \in Positions(seq, tok) : i >= k

\* seq.rpartition(tok)[2], seq.partition(tok)[0] and seq.partition(tok)[2]
AfterLast(seq, tok) ==
    IF Positions(seq, tok) = {} THEN seq
    ELSE SubSeq(seq, Last(seq, tok) + 1, Len(seq))
BeforeFirst(seq, tok) ==
    IF Positions(seq, tok) = {} THEN seq
    ELSE SubSeq(seq, 1, First(seq, tok) - 1)
AfterFirst(seq, tok) ==
    IF Positions(seq, tok) = {} THEN <<>>
    ELSE SubSeq(seq, First(seq, tok) + 1, Len(seq))

\* the credentials are not cut off: the host is what precedes the first ":"
hostname_keeps_userinfo(u) ==
    IF BeforeFirst(Netloc(u), ":") = <<>> THEN None
    ELSE Lower(BeforeFirst(Netloc(u), ":")[1])

\* urllib.parse.urlparse(url).hostname: what follows the last "@" of the
\* network location, up to the first ":" or, for an IP literal, between the
\* brackets; lower-cased; None when that is empty
hostname(u) ==
    LET hostinfo == AfterLast(Netloc(u), "@")
        host == IF Positions(hostinfo, "[") # {}
                THEN BeforeFirst(AfterFirst(hostinfo, "["), "]")
                ELSE BeforeFirst(hostinfo, ":")
    IN  IF host = <<>> THEN None ELSE Lower(host[1])

Rate(opt) == IF opt = <<>> THEN DefaultRate ELSE opt[1]

\* contents of /etc/pf.conf, and the two lines the program appends to it
PfConf == {"pf.conf rule"}
AnchorRefs == {"dummynet-anchor throttle", "anchor throttle"}

----------------------------------------------------------------------------
(* The machine's configuration and the commands that change it *)

\* os is a record:
\*   pipes       dummynet pipes, by number
\*   mainRules   the main packet-filter rule set
\*   anchorRules the rules of the anchor "throttle"
\*   pfEnabled   the packet filter is enabled
\*   pfRefs      enable references held (pfctl -E adds one)

\* dnctl -q flush: deletes every pipe and queue of the machine
DnctlFlush(o) == [o EXCEPT !.pipes = [k \in PipeIds |-> NoPipe]]

\* dnctl pipe <k> config bw <rate>Kbit/s queue 10
DnctlPipeConfig(o, k, rate) == [o EXCEPT !.pipes[k] = <<rate, 10>>]

\* (cat /etc/pf.conf && echo 'dummynet-anchor "throttle"' && echo 'anchor
\* "throttle"') | pfctl -f - : replaces the main rule set
PfctlLoadMain(o) == [o EXCEPT !.mainRules = PfConf \cup AnchorRefs]

\* pfctl -a throttle -f <file>: replaces the rules of the anchor
PfctlLoadAnchor(o, rules) == [o EXCEPT !.anchorRules = rules]

\* pfctl -E: enables the packet filter and takes a reference
PfctlEnable(o) == [o EXCEPT !.pfEnabled = TRUE, !.pfRefs = @ + 1]

\* pfctl -a throttle -F all: empties the anchor
PfctlFlushAnchor(o) == [o EXCEPT !.anchorRules = <<>>]

\* the rule text written to /tmp/pf.rules.throttle, one record per rule line
Rule(kind, quick, dir, iface, proto, to, pipe) ==
    [kind |-> kind, quick |-> quick, dir |-> dir, iface |-> iface,
     proto |-> proto, from |-> "any", to |-> to, pipe |-> pipe]

pf_rules(host) ==
    << Rule("no dummynet", TRUE, "any", "lo0", "any", "any", 0),
       Rule("dummynet", FALSE, "in",  "any", "tcp", host, 1),
       Rule("dummynet", FALSE, "out", "any", "tcp", host, 2),
       Rule("dummynet", FALSE, "in",  "any", "udp", host, 1),
       Rule("dummynet", FALSE, "out", "any", "udp", host, 2) >>

----------------------------------------------------------------------------
(* How the packet filter assigns a packet to a pipe *)

Packets ==
    [dir : {"in", "out"}, iface : {"en0", "lo0"}, proto : {"tcp", "udp", "icmp"},
     src : Hosts, dst : Hosts]

Matches(r, p) ==
    /\ r.dir \in {"any", p.dir}
    /\ r.iface \in {"any", p.iface}
    /\ r.proto \in {"any", p.proto}
    /\ r.from \in {"any", p.src}
    /\ r.to \in {"any", p.dst}

\* pf evaluates the rules in order: the last matching rule decides, and a
\* matching "quick" rule decides at once.  The result is the pipe number, 0
\* for no pipe.
RECURSIVE Eval(_, _, _, _)
Eval(rules, i, p, sofar) ==
    IF i > Len(rules) THEN sofar
    ELSE IF Matches(rules[i], p)
         THEN IF rules[i].quick THEN rules[i].pipe
              ELSE Eval(rules, i + 1, p, rules[i].pipe)
         ELSE Eval(rules, i + 1, p, sofar)

\* the pipe a packet goes through: the anchor's rules apply when the filter
\* is enabled and the main rule set refers to the anchor
PipeOf(o, p) ==
    IF o.pfEnabled /\ "dummynet-anchor throttle" \in o.mainRules
    THEN Eval(o.anchorRules, 1, p, 0)
    ELSE 0

\* the bandwidth cap on a packet in Kbit/s, <<>> when it is not shaped
CapOf(o, p) ==
    IF PipeOf(o, p) = 0 THEN <<>>
    ELSE IF o.pipes[PipeOf(o, p)] = NoPipe THEN <<>>
    ELSE <<o.pipes[PipeOf(o, p)][1]>>

----------------------------------------------------------------------------
(* Positions of the process *)

SetupCmdPcs == {"s_flush", "s_pipe1", "s_pipe2", "s_main", "s_anchor", "s_enable"}
SetupPcs == SetupCmdPcs \cup {"s_write"}
CleanupCmdPcs == {"c_anchor", "c_dn"}
CleanupPcs == CleanupCmdPcs \cup {"c_done"}
StartupPcs == {"parse", "check_url", "check_root", "register", "install_handler"}

Configuring == pc \in SetupPcs
Active == pc = "active"
Cleaning == pc \in CleanupPcs
Terminated == pc = "done"

\* the command each position runs with subprocess.run
Cmd(at) ==
    CASE at = "s_flush"  -> "dnctl flush"
      [] at = "s_pipe1"  -> "dnctl pipe 1 config"
      [] at = "s_pipe2"  -> "dnctl pipe 2 config"
      [] at = "s_main"   -> "pfctl -f -"
      [] at = "s_anchor" -> "pfctl -a throttle -f"
      [] at = "s_enable" -> "pfctl -E"
      [] at = "c_anchor" -> "pfctl -a throttle -F all"
      [] at = "c_dn"     -> "dnctl flush"

\* every subprocess.run made with check=True, those of cleanup too
Check_all(at) == at # "s_enable"

\* the check= argument of each subprocess.run
Check(at) == at \in {"s_flush", "s_pipe1", "s_pipe2", "s_main", "s_anchor"}

\* the configuration after the command of a position has succeeded
Effect(at) ==
    CASE at = "s_flush"  -> DnctlFlush(os)
      [] at = "s_pipe1"  -> DnctlPipeConfig(os, 1, Rate(argv.download))
      [] at = "s_pipe2"  -> DnctlPipeConfig(os, 2, Rate(argv.upload))
      [] at = "s_main"   -> PfctlLoadMain(os)
      [] at = "s_anchor" -> PfctlLoadAnchor(os, rulesFile)
      [] at = "s_enable" -> PfctlEnable(os)
      [] at = "c_anchor" -> PfctlFlushAnchor(os)
      [] at = "c_dn"     -> DnctlFlush(os)

Who(at) == IF at \in SetupPcs THEN "setup" ELSE "cleanup"

Issued(at, rc) == Append(cmds, [who |-> Who(at), cmd |-> Cmd(at), rc |-> rc])

\* the filter rules are installed before the pipes are created
After_rules_first(at) ==
    CASE at = "s_flush"  -> "s_main"
      [] at = "s_main"   -> "s_write"
      [] at = "s_write"  -> "s_anchor"
      [] at = "s_anchor" -> "s_pipe1"
      [] at = "s_pipe1"  -> "s_pipe2"
      [] at = "s_pipe2"  -> "s_enable"
      [] at = "s_enable" -> "active"
      [] at = "c_anchor" -> "c_dn"
      [] at = "c_dn"     -> "c_done"

\* the position after the statement at a position has completed
After(at) ==
    CASE at = "s_flush"  -> "s_pipe1"
      [] at = "s_pipe1"  -> "s_pipe2"
      [] at = "s_pipe2"  -> "s_main"
      [] at = "s_main"   -> "s_write"
      [] at = "s_write"  -> "s_anchor"
      [] at = "s_anchor" -> "s_enable"
      [] at = "s_enable" -> "active"
      [] at = "c_anchor" -> "c_dn"
      [] at = "c_dn"     -> "c_done"

\* cleanup is driven by the interpreter's exit, or by the cleanup driver
Driven == exitVia = "driver"

----------------------------------------------------------------------------
(* Initial states *)

\* configurations the machine can be in before the program starts: pipes 1
\* and 2 and the anchor are not in use, other pipes and rules may be
OsBefore ==
    { [pipes |-> [k \in PipeIds |-> IF k \in used THEN <<300, 50>> ELSE NoPipe],
       mainRules |-> PfConf \cup extra,
       anchorRules |-> <<>>,
       pfEnabled |-> en,
       pfRefs |-> IF en THEN 1 ELSE 0] :
      used \in SUBSET (PipeIds \ {1, 2}),
      extra \in {{}, {"runtime rule"}},
      en \in BOOLEAN }

Init ==
    /\ argv \in [url : URLs, download : DownloadOpts, upload : UploadOpts]
    /\ euid \in {0, 501}
    /\ target_host = None
    /\ pc = "parse"
    /\ os \in OsBefore
    /\ os0 = os
    /\ rulesFile = <<>>
    /\ cmds = <<>>
    /\ handler = "default"
    /\ registered = FALSE
    /\ cleanupRuns = 0
    /\ cleanupRaised = 0
    /\ exitCode = 0
    /\ exitVia = "running"
    /\ sigAt = {}
    /\ sigints = 0
    /\ wasActive = FALSE
    /\ calls = <<>>
    /\ wakeups = 0

----------------------------------------------------------------------------
(* Leaving main and leaving cleanup *)

\* sys.exit(code) or an exception that nothing catches: the interpreter
\* finalizes and will exit with this status
Exit(code, via) ==
    /\ exitCode' = code
    /\ exitVia' = via
    /\ pc' = "finalize"

\* an exception leaves cleanup: the atexit machinery reports and drops it
CleanupRaises ==
    /\ cleanupRaised' = cleanupRaised + 1
    /\ pc' = IF Driven THEN "raised" ELSE "done"

\* subprocess.run at a position: the command runs to its end with exit
\* status rc; check=True raises CalledProcessError on a non-zero status
Run(at) ==
    /\ pc = at
    /\ \E rc \in {0, 1} :
        /\ cmds' = Issued(at, rc)
        /\ os' = IF rc = 0 THEN Effect(at) ELSE os
        /\ IF Check(at) /\ rc # 0
           THEN IF at \in SetupPcs
                THEN pc' = "except" /\ UNCHANGED cleanupRaised
                ELSE CleanupRaises
           ELSE pc' = After(at) /\ UNCHANGED cleanupRaised
    /\ wasActive' = (wasActive \/ pc' = "active")
    /\ UNCHANGED <<argv, euid, target_host, os0, rulesFile, handler, registered,
                   cleanupRuns, exitCode, exitVia, sigAt, sigints, calls, wakeups>>

----------------------------------------------------------------------------
(* main *)

\* lines 82-86: parse the arguments and extract the hostname
parse_args ==
    /\ pc = "parse"
    /\ target_host' = hostname(argv.url)
    /\ pc' = "check_url"
    /\ UNCHANGED <<argv, euid, os, os0, rulesFile, cmds, handler, registered,
                   cleanupRuns, cleanupRaised, exitCode, exitVia, sigAt,
                   sigints, wasActive, calls, wakeups>>

\* the hostname test left out
check_url_skipped ==
    /\ pc = "check_url"
    /\ pc' = "check_root"
    /\ UNCHANGED <<argv, euid, target_host, os, os0, rulesFile, cmds, handler,
                   registered, cleanupRuns, cleanupRaised, exitCode, exitVia,
                   sigAt, sigints, wasActive, calls, wakeups>>

\* lines 88-90: a URL without hostname ends the program with status 1
check_url ==
    /\ pc = "check_url"
    /\ IF target_host = None
       THEN Exit(1, "invalid_url")
       ELSE pc' = "check_root" /\ UNCHANGED <<exitCode, exitVia>>
    /\ UNCHANGED <<argv, euid, target_host, os, os0, rulesFile, cmds, handler,
                   registered, cleanupRuns, cleanupRaised, sigAt, sigints,
                   wasActive, calls, wakeups>>

\* the privilege test reports but does not exit
check_root_no_exit ==
    /\ pc = "check_root"
    /\ pc' = "register"
    /\ UNCHANGED <<argv, euid, target_host, os, os0, rulesFile, cmds, handler,
                   registered, cleanupRuns, cleanupRaised, exitCode, exitVia,
                   sigAt, sigints, wasActive, calls, wakeups>>

\* lines 10-13 and 92: without root the program ends with status 1
check_root ==
    /\ pc = "check_root"
    /\ IF euid # 0
       THEN Exit(1, "not_root")
       ELSE pc' = "register" /\ UNCHANGED <<exitCode, exitVia>>
    /\ UNCHANGED <<argv, euid, target_host, os, os0, rulesFile, cmds, handler,
                   registered, cleanupRuns, cleanupRaised, sigAt, sigints,
                   wasActive, calls, wakeups>>

\* line 95: atexit.register(cleanup)
register_cleanup ==
    /\ pc = "register"
    /\ registered' = TRUE
    /\ pc' = "install_handler"
    /\ UNCHANGED <<argv, euid, target_host, os, os0, rulesFile, cmds, handler,
                   cleanupRuns, cleanupRaised, exitCode, exitVia, sigAt,
                   sigints, wasActive, calls, wakeups>>

\* line 96: signal.signal(SIGINT, lambda: sys.exit(0))
install_handler ==
    /\ pc = "install_handler"
    /\ handler' = "exit0"
    /\ pc' = "s_flush"
    /\ UNCHANGED <<argv, euid, target_host, os, os0, rulesFile, cmds,
                   registered, cleanupRuns, cleanupRaised, exitCode, exitVia,
                   sigAt, sigints, wasActive, calls, wakeups>>

\* the error path ends the process with os._exit(1), past the exit callbacks
except_os_exit ==
    /\ pc = "except"
    /\ exitCode' = 1
    /\ exitVia' = "CalledProcessError"
    /\ pc' = "done"
    /\ UNCHANGED <<argv, euid, target_host, os, os0, rulesFile, cmds, handler,
                   registered, cleanupRuns, cleanupRaised, sigAt, sigints,
                   wasActive, calls, wakeups>>

\* lines 112-114: a failed setup command ends the program with status 1
except_CalledProcessError ==
    /\ pc = "except"
    /\ Exit(1, "CalledProcessError")
    /\ UNCHANGED <<argv, euid, target_host, os, os0, rulesFile, cmds, handler,
                   registered, cleanupRuns, cleanupRaised, sigAt, sigints,
                   wasActive, calls, wakeups>>

----------------------------------------------------------------------------
(* setup_pf_and_dummynet *)

setup_flush == Run("s_flush")      \* line 25
setup_pipe1 == Run("s_pipe1")      \* lines 29-33
setup_pipe2 == Run("s_pipe2")      \* lines 36-40
setup_main == Run("s_main")        \* lines 44-47

\* lines 50-64: write the rules file; open() or write() may raise OSError,
\* which nothing catches: traceback and status 1
setup_write ==
    /\ pc = "s_write"
    /\ \/ /\ rulesFile' = pf_rules(target_host)
          /\ pc' = After("s_write")
          /\ UNCHANGED <<exitCode, exitVia>>
       \/ /\ Exit(1, "OSError")
          /\ UNCHANGED rulesFile
    /\ UNCHANGED <<argv, euid, target_host, os, os0, cmds, handler, registered,
                   cleanupRuns, cleanupRaised, sigAt, sigints, wasActive, calls, wakeups>>

setup_anchor == Run("s_anchor")    \* lines 67-69
setup_enable == Run("s_enable")    \* line 72, then line 106

\* no loop around signal.pause(): when it returns, main ends
wait_once ==
    /\ pc = "active"
    /\ wakeups < MaxWakeups
    /\ wakeups' = wakeups + 1
    /\ pc' = "finalize"
    /\ UNCHANGED <<argv, euid, target_host, os, os0, rulesFile, cmds, handler,
                   registered, cleanupRuns, cleanupRaised, exitCode, exitVia,
                   sigAt, sigints, wasActive, calls>>

\* lines 109-110: signal.pause() returns without SIGINT having been handled
\* (nothing was raised) and the loop calls it again
wait_loop ==
    /\ pc = "active"
    /\ wakeups < MaxWakeups
    /\ wakeups' = wakeups + 1
    /\ pc' = "active"
    /\ UNCHANGED <<argv, euid, target_host, os, os0, rulesFile, cmds, handler,
                   registered, cleanupRuns, cleanupRaised, exitCode, exitVia,
                   sigAt, sigints, wasActive, calls>>

setup_pf_and_dummynet ==
    \/ setup_flush
    \/ setup_pipe1
    \/ setup_pipe2
    \/ setup_main
    \/ setup_write
    \/ setup_anchor
    \/ setup_enable

----------------------------------------------------------------------------
(* cleanup *)

\* the interpreter finalizes: it calls the atexit callback, if registered
run_exitfuncs ==
    /\ pc = "finalize"
    /\ IF registered
       THEN pc' = "c_anchor" /\ cleanupRuns' = cleanupRuns + 1
       ELSE pc' = "done" /\ UNCHANGED cleanupRuns
    /\ UNCHANGED <<argv, euid, target_host, os, os0, rulesFile, cmds, handler,
                   registered, cleanupRaised, exitCode, exitVia, sigAt,
                   sigints, wasActive, calls, wakeups>>

cleanup_anchor_flush == Run("c_anchor")    \* lines 16-18
cleanup_dn_flush == Run("c_dn")            \* line 20

\* line 21: cleanup returns to its caller
cleanup_return ==
    /\ pc = "c_done"
    /\ pc' = IF Driven THEN "returned" ELSE "done"
    /\ calls' = Append(calls, os)
    /\ UNCHANGED <<argv, euid, target_host, os, os0, rulesFile, cmds, handler,
                   registered, cleanupRuns, cleanupRaised, exitCode, exitVia,
                   sigAt, sigints, wasActive, wakeups>>

cleanup ==
    \/ cleanup_anchor_flush
    \/ cleanup_dn_flush
    \/ cleanup_return

----------------------------------------------------------------------------
(* SIGINT *)

\* what a SIGINT interrupts: nothing but Python code (the exception is
\* raised between two statements), or a subprocess.run that waits for its
\* child: the child is killed, and has changed the configuration or not
Interrupted ==
    \/ UNCHANGED <<os, cmds>>
    \/ /\ pc \in SetupCmdPcs \cup CleanupCmdPcs
       /\ cmds' = Issued(pc, -9)
       /\ os' \in {os, Effect(pc)}

Delivered ==
    /\ sigints < MaxSigints
    /\ sigints' = sigints + 1
    /\ sigAt' = sigAt \cup {pc}

\* before line 96 has run, SIGINT raises KeyboardInterrupt, which nothing
\* catches: the interpreter finalizes and the process dies of SIGINT
sigint_default ==
    /\ pc \in StartupPcs
    /\ handler = "default"
    /\ Delivered
    /\ Exit(128 + 2, "KeyboardInterrupt")
    /\ UNCHANGED <<argv, euid, target_host, os, os0, rulesFile, cmds, handler,
                   registered, cleanupRuns, cleanupRaised, wasActive, calls, wakeups>>

\* the handler returns without raising: the interrupted code goes on
sigint_ignored ==
    /\ pc \in SetupPcs \cup {"active", "except"}
    /\ handler = "exit0"
    /\ Delivered
    /\ UNCHANGED <<argv, euid, target_host, pc, os, os0, rulesFile, cmds,
                   handler, registered, cleanupRuns, cleanupRaised, exitCode,
                   exitVia, wasActive, calls, wakeups>>

\* line 96: from then on SIGINT raises SystemExit(0) in main, which the
\* except clause of line 112 does not catch
sigint_main ==
    /\ pc \in SetupPcs \cup {"active", "except"}
    /\ handler = "exit0"
    /\ Delivered
    /\ Interrupted
    /\ Exit(0, "SIGINT")
    /\ UNCHANGED <<argv, euid, target_host, os0, rulesFile, handler,
                   registered, cleanupRuns, cleanupRaised, wasActive, calls, wakeups>>

\* a SIGINT while cleanup runs raises in cleanup (SystemExit, or
\* KeyboardInterrupt when line 96 has not run)
sigint_cleanup ==
    /\ pc \in CleanupPcs
    /\ ~Driven
    /\ Delivered
    /\ Interrupted
    /\ CleanupRaises
    /\ UNCHANGED <<argv, euid, target_host, os0, rulesFile, handler,
                   registered, cleanupRuns, exitCode, exitVia, wasActive, calls, wakeups>>

sigint ==
    \/ sigint_default
    \/ sigint_main
    \/ sigint_cleanup

----------------------------------------------------------------------------
(* The program *)

main ==
    \/ parse_args
    \/ check_url
    \/ check_root
    \/ register_cleanup
    \/ install_handler
    \/ setup_pf_and_dummynet
    \/ wait_loop
    \/ except_CalledProcessError

Next ==
    \/ main
    \/ run_exitfuncs
    \/ cleanup
    \/ sigint

Spec == Init /\ [][Next]_vars

\* the process keeps running while it has a step to take (no command hangs)
FairSpec == Spec /\ WF_vars(main \/ run_exitfuncs \/ cleanup)

----------------------------------------------------------------------------
(* cleanup on its own: a driver calls it, up to MaxCalls times in           *)
(* succession, on a configuration in any state a run of the program can     *)
(* leave behind                                                             *)

OsAny ==
    { [pipes |-> [k \in PipeIds |-> IF k \in used THEN <<300, 50>> ELSE NoPipe],
       mainRules |-> PfConf \cup refs,
       anchorRules |-> rules,
       pfEnabled |-> en,
       pfRefs |-> IF en THEN 1 ELSE 0] :
      used \in SUBSET PipeIds,
      refs \in {{}, AnchorRefs},
      rules \in {<<>>, pf_rules("example.com")},
      en \in BOOLEAN }

InitCleanup ==
    /\ argv = [url |-> [slashes |-> TRUE, userinfo |-> FALSE,
                        host |-> <<"example.com">>, port |-> FALSE],
               download |-> <<>>, upload |-> <<>>]
    /\ euid = 0
    /\ target_host = "example.com"
    /\ pc = "idle"
    /\ os \in OsAny
    /\ os0 = os
    /\ rulesFile = <<>>
    /\ cmds = <<>>
    /\ handler = "default"
    /\ registered = FALSE
    /\ cleanupRuns = 0
    /\ cleanupRaised = 0
    /\ exitCode = 0
    /\ exitVia = "driver"
    /\ sigAt = {}
    /\ sigints = 0
    /\ wasActive = FALSE
    /\ calls = <<>>
    /\ wakeups = 0

call_cleanup ==
    /\ pc \in {"idle", "returned"}
    /\ cleanupRuns < MaxCalls
    /\ cleanupRuns' = cleanupRuns + 1
    /\ pc' = "c_anchor"
    /\ UNCHANGED <<argv, euid, target_host, os, os0, rulesFile, cmds, handler,
                   registered, cleanupRaised, exitCode, exitVia, sigAt,
                   sigints, wasActive, calls, wakeups>>

NextCleanup ==
    \/ call_cleanup
    \/ cleanup

SpecCleanup == InitCleanup /\ [][NextCleanup]_vars

----------------------------------------------------------------------------
(* Properties *)

\* the process was ended by the signal (unhandled KeyboardInterrupt), not by
\* an exit
Killed == exitVia = "KeyboardInterrupt"

IssuedBy(who, cmd) == \E i \in 1 .. Len(cmds) : cmds[i].who = who /\ cmds[i].cmd = cmd

SetupFailedAt(i) == cmds[i].who = "setup" /\ cmds[i].rc = 1

AllSetupSucceeded ==
    \A at \in SetupCmdPcs :
        \E i \in 1 .. Len(cmds) :
            cmds[i].who = "setup" /\ cmds[i].cmd = Cmd(at) /\ cmds[i].rc = 0

\* cleanup ran to its end and both of its flushes succeeded
CleanupSucceeded ==
    /\ cleanupRuns = 1
    /\ cleanupRaised = 0
    /\ \E i \in 1 .. Len(cmds) - 1 :
        /\ cmds[i] = [who |-> "cleanup", cmd |-> Cmd("c_anchor"), rc |-> 0]
        /\ cmds[i + 1] = [who |-> "cleanup", cmd |-> Cmd("c_dn"), rc |-> 0]

\* C1: once cleanup is registered, it is entered exactly once before the
\* process terminates, whatever ends main (SIGINT, a failing setup command, an
\* unhandled error): at most once at any time, and once when terminated.
C1_CleanupExactlyOnce ==
    /\ cleanupRuns <= 1
    /\ ~registered => cleanupRuns = 0
    /\ (Terminated /\ registered) => cleanupRuns = 1

C1_Witness ==
    /\ Terminated
    /\ registered
    /\ exitVia = "SIGINT"
    /\ sigints = 2
    /\ cleanupRuns = 1

\* C2: after cleanup has run (to its end, its flushes succeeding), nothing the
\* installer created remains: pipes 1 and 2, the anchor's rules, the anchor
\* reference lines of the main rule set and the enabling of the packet filter
\* are as they were before the program started.
C2_NothingRemains ==
    (Terminated /\ CleanupSucceeded) =>
        /\ os.pipes[1] = os0.pipes[1]
        /\ os.pipes[2] = os0.pipes[2]
        /\ os.anchorRules = os0.anchorRules
        /\ os.mainRules \cap AnchorRefs = os0.mainRules \cap AnchorRefs
        /\ os.pfEnabled = os0.pfEnabled
        /\ os.pfRefs = os0.pfRefs

\* C3: pipes other than 1 and 2 and main rules other than the references to
\* the anchor "throttle" are, in every state, as they were before the program
\* started.
C3_UnrelatedUnchanged ==
    /\ \A k \in PipeIds \ {1, 2} : os.pipes[k] = os0.pipes[k]
    /\ os.mainRules \ AnchorRefs = os0.mainRules \ AnchorRefs

\* C4: when a setup command has failed, no later setup command is issued, and
\* the process terminates with cleanup run and exit code 1.
C4_FailureAborts ==
    \A i \in 1 .. Len(cmds) :
        SetupFailedAt(i) =>
            /\ \A j \in (i + 1) .. Len(cmds) : cmds[j].who # "setup"
            /\ Terminated => (cleanupRuns = 1 /\ exitCode = 1)

\* C5: the program is Active only if every installer step succeeded, and a
\* program of which an installer step failed is never Active.
C5_ActiveOnlyOnSuccess ==
    /\ Active => AllSetupSucceeded
    /\ (\E i \in 1 .. Len(cmds) : SetupFailedAt(i)) => ~wasActive

\* C6: a process that is not root issues no configuration command and runs no
\* cleanup, and when it exits its exit code is 1.
C6_NotRootNoCommand ==
    euid # 0 =>
        /\ cmds = <<>>
        /\ cleanupRuns = 0
        /\ (Terminated /\ ~Killed) => exitCode = 1

C6_Witness ==
    /\ Terminated
    /\ euid # 0
    /\ exitVia = "not_root"
    /\ exitCode = 1
    /\ cmds = <<>>

\* C7: for a URL without extractable hostname no configuration command is
\* issued and cleanup is neither registered nor run, whatever the euid, and
\* when the process exits its exit code is 1.
C7_InvalidUrlNoCommand ==
    hostname(argv.url) = None =>
        /\ cmds = <<>>
        /\ ~registered
        /\ cleanupRuns = 0
        /\ (Terminated /\ ~Killed) => (exitCode = 1 /\ exitVia = "invalid_url")

C7_Witness ==
    /\ Terminated
    /\ euid = 0
    /\ exitVia = "invalid_url"
    /\ exitCode = 1
    /\ cmds = <<>>

\* C8: when a SIGINT was delivered in the active wait, the process terminates
\* with both flushes of cleanup issued and exit code 0.
C8_InterruptFullCleanup ==
    (Terminated /\ "active" \in sigAt) =>
        /\ IssuedBy("cleanup", Cmd("c_anchor"))
        /\ IssuedBy("cleanup", Cmd("c_dn"))
        /\ exitCode = 0

\* every flush that succeeds in the second invocation succeeded in the first
NoLateSuccess ==
    /\ cmds[3].rc = 0 => cmds[1].rc = 0
    /\ cmds[4].rc = 0 => cmds[2].rc = 0

C10_RatesPerDirection ==
    (Active /\ AllSetupSucceeded) =>
        \A p \in Packets :
            /\ (p.iface # "lo0" /\ p.proto \in {"tcp", "udp"} /\ p.dir = "in"
                    /\ p.src = target_host /\ p.dst = "local")
                => CapOf(os, p) = <<Rate(argv.download)>>
            /\ (p.iface # "lo0" /\ p.proto \in {"tcp", "udp"} /\ p.dir = "out"
                    /\ p.dst = target_host /\ p.src = "local")
                => CapOf(os, p) = <<Rate(argv.upload)>>
            /\ (p.iface = "lo0" \/ (p.src # target_host /\ p.dst # target_host))
                => PipeOf(os, p) = 0

\* C11: whenever a pipe configuration command has been issued, the download
\* and the upload rate are positive (1000 when the option is omitted), and a
\* pipe the program configured has a positive bandwidth.
C11_RatesPositive ==
    /\ (\E i \in 1 .. Len(cmds) : cmds[i].cmd \in {Cmd("s_pipe1"), Cmd("s_pipe2")})
        => /\ Rate(argv.download) > 0
           /\ Rate(argv.upload) > 0
           /\ argv.download = <<>> => Rate(argv.download) = 1000
           /\ argv.upload = <<>> => Rate(argv.upload) = 1000
    /\ \A k \in {1, 2} : os.pipes[k] # NoPipe => os.pipes[k][1] > 0

\* the host component without the brackets of an IP literal, lower-cased
Canonical(host) ==
    LET bare == SelectSeq(host, LAMBDA t : t \notin {"[", "]"})
    IN  [i \in 1 .. Len(bare) |-> Lower(bare[i])]

\* lines 85-86 have run
Parsed == pc # "parse" /\ "parse" \notin sigAt

\* the hosts the filter rules of the rules file name
RuleHosts == {rulesFile[i].to : i \in 1 .. Len(rulesFile)} \ {"any"}

\* C12 (as amended): for a URL with a host, the hostname extracted is not
\* empty and is the URL's host component, lower-cased and without the
\* brackets of an IP literal, free of credentials and port; it is the only
\* host the filter rules name.
C12_HostnameIsHost ==
    (Parsed /\ argv.url.slashes /\ argv.url.host # <<>>) =>
        /\ target_host \notin {None, ""}
        /\ <<target_host>> = Canonical(argv.url.host)
        /\ RuleHosts \subseteq {target_host}

C12_Witness ==
    /\ argv.url.userinfo
    /\ argv.url.port
    /\ argv.url.host = <<"Example.COM">>
    /\ target_host = "example.com"
    /\ RuleHosts = {"example.com"}
    /\ pc = "active"

\* C12 (as stated): for a URL with a host, the hostname extracted is not empty
\* and equals the URL's host component; it is the only host the filter rules
\* name.
C12_Original ==
    (Parsed /\ argv.url.slashes /\ argv.url.host # <<>>) =>
        /\ target_host \notin {None, ""}
        /\ <<target_host>> = argv.url.host
        /\ RuleHosts \subseteq {target_host}

SetupIssued == SelectSeq(cmds, LAMBDA c : c.who = "setup")

SetupOrder ==
    << "dnctl flush", "dnctl pipe 1 config", "dnctl pipe 2 config",
       "pfctl -f -", "pfctl -a throttle -f", "pfctl -E" >>

InOrder ==
    /\ Len(SetupIssued) <= Len(SetupOrder)
    /\ \A i \in 1 .. Len(SetupIssued) :
        /\ SetupIssued[i].cmd = SetupOrder[i]
        /\ i < Len(SetupIssued) => SetupIssued[i].rc = 0

\* this step issues the command that loads the filter rules into the anchor
LoadsRules ==
    /\ Len(cmds') = Len(cmds) + 1
    /\ cmds'[Len(cmds')].cmd = "pfctl -a throttle -f"

\* C13: the setup commands are issued in the order flush, pipe 1, pipe 2,
\* main rule set, anchor rules, enable, each after the previous one has
\* completed, and the step that loads the filter rules is taken only when
\* pipes 1 and 2 exist.
C13_SetupOrder ==
    /\ []InOrder
    /\ [][LoadsRules => (os.pipes[1] # NoPipe /\ os.pipes[2] # NoPipe)]_vars

C13_Witness ==
    /\ pc = "active"
    /\ Len(SetupIssued) = 6
    /\ os.anchorRules = pf_rules(target_host)
    /\ os.pipes[1] # NoPipe
    /\ os.pipes[2] # NoPipe

\* C14: a step taken while Active leaves the program Active, with no command
\* issued and the configuration untouched, unless the step is the delivery of
\* a SIGINT; in particular a return of the wait that is no interrupt
\* re-enters the wait.
C14_ActiveUntilInterrupt ==
    [][Active =>
        \/ sigints' = sigints + 1
        \/ Active' /\ cmds' = cmds /\ os' = os /\ exitVia' = exitVia]_vars

C14_Witness ==
    /\ Active
    /\ wakeups >= 1
    /\ sigints = 0
    /\ exitVia = "running"

\* C15: when a SIGINT was delivered while cleanup was executing, the process
\* terminates with both flushes of cleanup issued and cleanup entered once.
C15_InterruptInCleanup ==
    (Terminated /\ sigAt \cap CleanupPcs # {}) =>
        /\ IssuedBy("cleanup", Cmd("c_anchor"))
        /\ IssuedBy("cleanup", Cmd("c_dn"))
        /\ cleanupRuns = 1

InterruptedConfiguring == sigAt \cap SetupPcs # {}

\* C16: once a SIGINT was delivered during Configuring, the program is on its
\* way out with exit code 0 and has never been Active, it issues no further
\* setup command, it terminates, and when terminated cleanup has run once.
C16_InterruptWhileConfiguring ==
    /\ [](InterruptedConfiguring =>
            /\ pc \in {"finalize", "done"} \cup CleanupPcs
            /\ ~wasActive
            /\ exitCode = 0
            /\ Terminated => cleanupRuns = 1)
    /\ [][InterruptedConfiguring => SetupIssued' = SetupIssued]_vars
    /\ (InterruptedConfiguring ~> Terminated)

C16_Witness ==
    /\ Terminated
    /\ "s_main" \in sigAt
    /\ exitCode = 0
    /\ exitVia = "SIGINT"
    /\ cleanupRuns = 1
    /\ ~wasActive

====
